---- MODULE Spec2Model ----
(***************************************************************************)
(* The polynomial engine of the STIR crate (stir/src/polynomial/mod.rs)    *)
(* and the test configuration builder (stir/src/test_utils.rs).            *)
(*                                                                         *)
(* A polynomial is its coefficient vector: the sequence <<c0, c1, ...>>,   *)
(* the coefficient of x^i at index i + 1.  The field F is the prime field  *)
(* of P elements; a call that panics returns a record with ok = FALSE.     *)
(***************************************************************************)
EXTENDS Integers, Sequences, FiniteSets, TLC

(***************************************************************************)
(* Bounds of the model.                                                    *)
(***************************************************************************)
\* longest coefficient vector given to an operation as an operand
MaxLen == 2
\* operands' coefficients, scalars and points are 0 .. MaxCoeff and -1
MaxCoeff == 1
\* longest list of (point, evaluation) pairs given to naive_interpolate
MaxPts == 2
\* width, in bits, the model gives to usize
UsizeBits == 3
\* longest list of folding factors
MaxRounds == 2

(***************************************************************************)
(* The field F: TwoAdicField, instantiated with the integers modulo P.     *)
(***************************************************************************)
P == 17
TWO_ADICITY == 4
GENERATOR == 3

FAdd(x, y) == (x + y) % P
FSub(x, y) == (x + P - y) % P
FNeg(x) == (P - x) % P
FMul(x, y) == (x * y) % P

RECURSIVE FPow(_, _)
FPow(x, n) == IF n = 0 THEN 1 ELSE FMul(x, FPow(x, n - 1))

\* try_inverse: None (ok = FALSE) on zero; inverse() unwraps it and panics
try_inverse(x) ==
    IF x = 0 THEN [ok |-> FALSE, val |-> 0]
    ELSE [ok |-> TRUE, val |-> FPow(x, P - 2)]

RECURSIVE Pow2(_)
Pow2(n) == IF n = 0 THEN 1 ELSE 2 * Pow2(n - 1)

\* a generator of the subgroup of order 2^bits
two_adic_generator(bits) == FPow(GENERATOR, (P - 1) \div Pow2(bits))

(***************************************************************************)
(* usize helpers.                                                          *)
(***************************************************************************)
RECURSIVE NextPow2From(_, _)
NextPow2From(n, p) == IF p >= n THEN p ELSE NextPow2From(n, 2 * p)

\* usize::next_power_of_two: the smallest power of two >= n (1 for n = 0)
next_power_of_two(n) == NextPow2From(n, 1)

RECURSIVE Log2From(_, _)
Log2From(n, k) == IF Pow2(k) >= n THEN k ELSE Log2From(n, k + 1)

log2_strict_usize(n) == Log2From(n, 0)

(***************************************************************************)
(* The discrete transforms (NaiveDft), on one column.                      *)
(***************************************************************************)
RECURSIVE SumTo(_, _)
SumTo(f, n) == IF n = 0 THEN 0 ELSE FAdd(f[n], SumTo(f, n - 1))

\* dft_batch: res[i] = sum_j v[j] * g^(i*j), g of order h = Len(v)
dft_batch(v) ==
    LET h == Len(v)
        g == two_adic_generator(log2_strict_usize(h))
        pw == [k \in 0 .. (h - 1) |-> FPow(g, k)]
    IN  [i \in 1 .. h |->
            SumTo([j \in 1 .. h |-> FMul(v[j], pw[((i - 1) * (j - 1)) % h])], h)]

\* idft_batch: the forward transform, divided by h, rows 1 .. h-1 reversed
idft_batch(v) ==
    LET h == Len(v)
        d == dft_batch(v)
        inv_h == try_inverse(h % P).val
    IN  [i \in 1 .. h |-> FMul(inv_h, d[((h - (i - 1)) % h) + 1])]

(***************************************************************************)
(* Polynomial: constructors and queries.                                   *)
(***************************************************************************)
zero == << >>

one == << 1 >>

monomial(coeff) == << coeff, 1 >>

from_coeffs(coeffs) == coeffs

RECURSIVE truncate_leading_zeros(_)
truncate_leading_zeros(coeffs) ==
    IF Len(coeffs) > 0 /\ coeffs[Len(coeffs)] = 0
    THEN truncate_leading_zeros(SubSeq(coeffs, 1, Len(coeffs) - 1))
    ELSE coeffs

is_zero(p) == Len(p) = 0

degree(p) == IF is_zero(p) THEN 0 ELSE Len(p) - 1

RECURSIVE HornerFrom(_, _, _, _)
HornerFrom(c, point, i, result) ==
    IF i = 0 THEN result
    ELSE HornerFrom(c, point, i - 1, FAdd(FMul(result, point), c[i]))

\* rfold from the last coefficient down to the first
horner_evaluate(poly_coeffs, point) ==
    HornerFrom(poly_coeffs, point, Len(poly_coeffs), 0)

evaluate(p, point) == IF is_zero(p) THEN 0 ELSE horner_evaluate(p, point)

(***************************************************************************)
(* Results of calls that can panic.                                        *)
(***************************************************************************)
Panic == [ok |-> FALSE, val |-> << >>]
Ret(p) == [ok |-> TRUE, val |-> p]

PanicQR == [ok |-> FALSE, q |-> << >>, r |-> << >>]
RetQR(q0, r0) == [ok |-> TRUE, q |-> q0, r |-> r0]

(***************************************************************************)
(* Addition, negation, subtraction.                                        *)
(***************************************************************************)
\* add with the final truncation left out
add_no_truncate(self, other) ==
    IF is_zero(self) THEN other
    ELSE IF is_zero(other) THEN self
    ELSE LET high == IF degree(self) >= degree(other) THEN self ELSE other
             low == IF degree(self) >= degree(other) THEN other ELSE self
         IN  [i \in 1 .. Len(high) |->
                 IF i <= Len(low) THEN FAdd(high[i], low[i]) ELSE high[i]]

add(self, other) ==
    IF is_zero(self) THEN other
    ELSE IF is_zero(other) THEN self
    ELSE LET high == IF degree(self) >= degree(other) THEN self ELSE other
             low == IF degree(self) >= degree(other) THEN other ELSE self
         IN  truncate_leading_zeros(
                 [i \in 1 .. Len(high) |->
                     IF i <= Len(low) THEN FAdd(high[i], low[i]) ELSE high[i]])

neg(self) == [i \in 1 .. Len(self) |-> FNeg(self[i])]

sub(self, other) == add(self, neg(other))

(***************************************************************************)
(* Multiplication through the transform.                                   *)
(***************************************************************************)
resize(v, n) == [i \in 1 .. n |-> IF i <= Len(v) THEN v[i] ELSE 0]

\* the transform domain of self * other; 0 stands for the value the
\* subtraction len + len - 1 leaves when both vectors are empty: it
\* underflows (a panic with overflow checks, usize::MAX without them, whose
\* next_power_of_two overflows in turn), and no build gets a domain from it
domain_size(self, other) ==
    IF Len(self) + Len(other) = 0 THEN 0
    ELSE next_power_of_two(Len(self) + Len(other) - 1)

\* mul with the final truncation left out
mul_no_truncate(self, other) ==
    LET n == domain_size(self, other)
    IN  IF n = 0 \/ log2_strict_usize(n) > TWO_ADICITY THEN Panic
        ELSE LET first_row == dft_batch(resize(self, n))
                 second_row == dft_batch(resize(other, n))
                 pointwise_multiplication ==
                     [i \in 1 .. n |-> FMul(first_row[i], second_row[i])]
             IN  Ret(idft_batch(pointwise_multiplication))

mul(self, other) ==
    LET n == domain_size(self, other)
    IN  IF n = 0 \/ log2_strict_usize(n) > TWO_ADICITY THEN Panic
        ELSE LET first_row == dft_batch(resize(self, n))
                 second_row == dft_batch(resize(other, n))
                 pointwise_multiplication ==
                     [i \in 1 .. n |-> FMul(first_row[i], second_row[i])]
                 inverse_dft == idft_batch(pointwise_multiplication)
             IN  Ret(truncate_leading_zeros(inverse_dft))

(***************************************************************************)
(* Division.                                                               *)
(***************************************************************************)
\* the guard of the reduction loop
DivGuard(remainder, divisor) ==
    ~is_zero(remainder) /\ degree(remainder) >= degree(divisor)

\* the body of the loop with the popping of the zeroed coefficients left out
DivBody_no_pop(quotient_coeffs, remainder, divisor, divisor_leading_coeff_inv) ==
    LET cur_q_coeff == FMul(remainder[Len(remainder)], divisor_leading_coeff_inv)
        cur_q_degree == degree(remainder) - degree(divisor)
        reduced == [k \in 1 .. Len(remainder) |->
                       IF k > cur_q_degree /\ k <= cur_q_degree + Len(divisor)
                       THEN FSub(remainder[k],
                                 FMul(cur_q_coeff, divisor[k - cur_q_degree]))
                       ELSE remainder[k]]
    IN  << [quotient_coeffs EXCEPT ![cur_q_degree + 1] = cur_q_coeff], reduced >>

\* one pass through the body of the reduction loop: <<quotient, remainder>>
DivBody(quotient_coeffs, remainder, divisor, divisor_leading_coeff_inv) ==
    LET cur_q_coeff == FMul(remainder[Len(remainder)], divisor_leading_coeff_inv)
        cur_q_degree == degree(remainder) - degree(divisor)
        reduced == [k \in 1 .. Len(remainder) |->
                       IF k > cur_q_degree /\ k <= cur_q_degree + Len(divisor)
                       THEN FSub(remainder[k],
                                 FMul(cur_q_coeff, divisor[k - cur_q_degree]))
                       ELSE remainder[k]]
    IN  << [quotient_coeffs EXCEPT ![cur_q_degree + 1] = cur_q_coeff],
           truncate_leading_zeros(reduced) >>

RECURSIVE DivLoop(_, _, _, _)
DivLoop(quotient_coeffs, remainder, divisor, inv) ==
    IF DivGuard(remainder, divisor)
    THEN LET nxt == DivBody(quotient_coeffs, remainder, divisor, inv)
         IN  DivLoop(nxt[1], nxt[2], divisor, inv)
    ELSE RetQR(from_coeffs(quotient_coeffs), remainder)

\* divide_with_q_and_r returning early also when the degrees are equal
divide_with_q_and_r_le(self, divisor) ==
    IF is_zero(divisor) THEN PanicQR
    ELSE IF is_zero(self) THEN RetQR(zero, zero)
    ELSE IF degree(self) <= degree(divisor) THEN RetQR(zero, self)
    ELSE LET inv == try_inverse(divisor[Len(divisor)])
         IN  IF ~inv.ok THEN PanicQR
             ELSE DivLoop([i \in 1 .. (degree(self) - degree(divisor) + 1) |-> 0],
                          self, divisor, inv.val)

divide_with_q_and_r(self, divisor) ==
    IF is_zero(divisor) THEN PanicQR
    ELSE IF is_zero(self) THEN RetQR(zero, zero)
    ELSE IF degree(self) < degree(divisor) THEN RetQR(zero, self)
    ELSE LET inv == try_inverse(divisor[Len(divisor)])
         IN  IF ~inv.ok THEN PanicQR
             ELSE DivLoop([i \in 1 .. (degree(self) - degree(divisor) + 1) |-> 0],
                          self, divisor, inv.val)

\* div with the assertion on the remainder left out
div_unchecked(self, other) ==
    LET qr == divide_with_q_and_r(self, other)
    IN  IF ~qr.ok THEN Panic ELSE Ret(qr.q)

div(self, other) ==
    LET qr == divide_with_q_and_r(self, other)
    IN  IF ~qr.ok \/ ~is_zero(qr.r) THEN Panic ELSE Ret(qr.q)

(***************************************************************************)
(* Products, vanishing polynomials, interpolation.                         *)
(***************************************************************************)
RECURSIVE ProductFrom(_, _, _)
ProductFrom(acc, polys, i) ==
    IF i > Len(polys) THEN Ret(acc)
    ELSE LET m == mul(acc, polys[i])
         IN  IF ~m.ok THEN Panic ELSE ProductFrom(m.val, polys, i + 1)

product(polys) == ProductFrom(one, polys, 1)

\* vanishing_polynomial with the sign of the points lost
vanishing_polynomial_pos(points) ==
    product([i \in 1 .. Len(points) |-> monomial(points[i])])

vanishing_polynomial(points) ==
    product([i \in 1 .. Len(points) |-> monomial(FNeg(points[i]))])

RECURSIVE InterpolateFrom(_, _, _, _)
InterpolateFrom(vanishing_poly, point_to_evals, i, result) ==
    IF i > Len(point_to_evals) THEN Ret(result)
    ELSE LET point == point_to_evals[i][1]
             eval == point_to_evals[i][2]
             term == div(vanishing_poly, monomial(FNeg(point)))
         IN  IF ~term.ok THEN Panic
             ELSE LET at == try_inverse(evaluate(term.val, point))
                  IN  IF ~at.ok THEN Panic
                      ELSE LET scale == FMul(eval, at.val)
                               coeffs == [k \in 1 .. Len(term.val) |->
                                             FMul(term.val[k], scale)]
                           IN  InterpolateFrom(vanishing_poly, point_to_evals, i + 1,
                                               add(result, from_coeffs(coeffs)))

naive_interpolate(point_to_evals) ==
    LET points == [i \in 1 .. Len(point_to_evals) |-> point_to_evals[i][1]]
        vanishing_poly == vanishing_polynomial(points)
    IN  IF ~vanishing_poly.ok THEN Panic
        ELSE InterpolateFrom(vanishing_poly.val, point_to_evals, 1, zero)

(***************************************************************************)
(* Polynomial and field scalar.                                            *)
(***************************************************************************)
add_scalar(self, other) == add(self, from_coeffs(<< other >>))

sub_scalar(self, other) == sub(self, from_coeffs(<< other >>))

mul_scalar(self, other) == mul(self, from_coeffs(<< other >>))

(***************************************************************************)
(* The state: the operands a caller holds, the call it makes, what the     *)
(* call returns.                                                           *)
(***************************************************************************)
VARIABLES
    a,              \* first polynomial operand (self)
    b,              \* second polynomial operand (other, divisor)
    pts,            \* the list of (point, evaluation) pairs
    op,             \* the call made, "none" before a call
    arg,            \* the field element given to the call (scalar, point)
    ok,             \* the call returned (FALSE: it panicked)
    out,            \* the polynomial returned (the quotient, for a division)
    rem,            \* the remainder returned by divide_with_q_and_r
    val,            \* the field element or usize returned
    pc,             \* position inside divide_with_q_and_r
    quotient_coeffs, \* its local quotient_coeffs
    remainder,      \* its local remainder
    iters,          \* passes made through its reduction loop
    log_starting_inv_rate,
    log_folding_factors,
    log_inv_rates,
    overflow_checks, \* the build checks integer overflow
    built           \* "no", "yes", or "panic"

vars == << a, b, pts, op, arg, ok, out, rem, val, pc, quotient_coeffs, remainder,
           iters, log_starting_inv_rate, log_folding_factors, log_inv_rates,
           overflow_checks, built >>

polyVars == << a, b, pts, op, arg, ok, out, rem, val >>
divVars == << pc, quotient_coeffs, remainder, iters >>
paramVars == << log_starting_inv_rate, log_folding_factors, log_inv_rates,
                overflow_checks, built >>

(***************************************************************************)
(* The inputs.                                                             *)
(***************************************************************************)
Coeffs == (0 .. MaxCoeff) \cup {P - 1}

SeqsUpTo(S, n) == UNION {[1 .. k -> S] : k \in 0 .. n}

Truncated(p) == Len(p) = 0 \/ p[Len(p)] # 0

\* coefficient vectors a caller can hold
Vectors == SeqsUpTo(Coeffs, MaxLen)

\* polynomials as the producing operations are meant to leave them
Polys == {p \in Vectors : Truncated(p)}

PointLists == SeqsUpTo(Coeffs \X Coeffs, MaxPts)

NoCall ==
    /\ op = "none" /\ arg = 0 /\ ok = TRUE
    /\ out = << >> /\ rem = << >> /\ val = 0

DivIdle ==
    /\ pc = "idle" /\ quotient_coeffs = << >> /\ remainder = << >> /\ iters = 0

ParamsIdle ==
    /\ log_starting_inv_rate = 0 /\ log_folding_factors = << >>
    /\ log_inv_rates = << >> /\ overflow_checks = TRUE /\ built = "no"

\* a caller holds two polynomials, or a list of points to interpolate
Init ==
    /\ \/ a \in Polys /\ b \in Polys /\ pts = << >>
       \/ a = zero /\ b = zero /\ pts \in PointLists
    /\ NoCall
    /\ DivIdle
    /\ ParamsIdle

(***************************************************************************)
(* The calls.                                                              *)
(***************************************************************************)
\* a call returning a polynomial, or panicking
Returns(name, x, r) ==
    /\ op = "none"
    /\ op' = name /\ arg' = x /\ ok' = r.ok /\ out' = r.val
    /\ rem' = << >> /\ val' = 0
    /\ UNCHANGED << a, b, pts, divVars, paramVars >>

\* a call returning a field element or a usize
ReturnsVal(name, x, v) ==
    /\ op = "none"
    /\ op' = name /\ arg' = x /\ ok' = TRUE /\ out' = << >>
    /\ rem' = << >> /\ val' = v
    /\ UNCHANGED << a, b, pts, divVars, paramVars >>

CallZero == Returns("zero", 0, Ret(zero))

CallOne == Returns("one", 0, Ret(one))

CallMonomial == \E c \in Coeffs : Returns("monomial", c, Ret(monomial(c)))

CallEvaluate == \E point \in Coeffs : ReturnsVal("evaluate", point, evaluate(a, point))

CallDegree == ReturnsVal("degree", 0, degree(a))

CallIsZero == ReturnsVal("is_zero", 0, IF is_zero(a) THEN 1 ELSE 0)

CallDivideWithQAndR ==
    /\ op = "none"
    /\ LET qr == divide_with_q_and_r(a, b)
       IN  /\ ok' = qr.ok /\ out' = qr.q /\ rem' = qr.r
    /\ op' = "divide_with_q_and_r" /\ arg' = 0 /\ val' = 0
    /\ UNCHANGED << a, b, pts, divVars, paramVars >>

CallVanishingPolynomial ==
    Returns("vanishing_polynomial", 0,
            vanishing_polynomial([i \in 1 .. Len(pts) |-> pts[i][1]]))

CallNaiveInterpolate == Returns("naive_interpolate", 0, naive_interpolate(pts))

CallAdd == Returns("add", 0, Ret(add(a, b)))

CallNeg == Returns("neg", 0, Ret(neg(a)))

CallSub == Returns("sub", 0, Ret(sub(a, b)))

CallMul == Returns("mul", 0, mul(a, b))

CallDiv == Returns("div", 0, div(a, b))

CallAddScalar == \E s \in Coeffs : Returns("add_scalar", s, Ret(add_scalar(a, s)))

CallSubScalar == \E s \in Coeffs : Returns("sub_scalar", s, Ret(sub_scalar(a, s)))

CallMulScalar == \E s \in Coeffs : Returns("mul_scalar", s, mul_scalar(a, s))

Producing ==
    {"zero", "one", "monomial", "divide_with_q_and_r", "vanishing_polynomial",
     "naive_interpolate", "add", "neg", "sub", "mul", "div", "add_scalar",
     "sub_scalar", "mul_scalar"}

Forget ==
    /\ op' = "none" /\ arg' = 0 /\ ok' = TRUE
    /\ out' = << >> /\ rem' = << >> /\ val' = 0

\* the caller keeps the polynomial returned as its next first operand, and
\* goes on without the point list (the calls that take it consume it)
KeepAsA ==
    /\ op \in Producing /\ ok /\ out \in Vectors
    /\ a' = out /\ pts' = << >> /\ Forget
    /\ UNCHANGED << b, divVars, paramVars >>

\* the caller keeps the polynomial returned as its next second operand
KeepAsB ==
    /\ op \in Producing /\ ok /\ out \in Vectors
    /\ b' = out /\ pts' = << >> /\ Forget
    /\ UNCHANGED << a, divVars, paramVars >>

\* the caller drops what the call returned, or unwinds from its panic
Drop ==
    /\ op # "none"
    /\ Forget
    /\ UNCHANGED << a, b, pts, divVars, paramVars >>

Next ==
    \/ CallZero
    \/ CallOne
    \/ CallMonomial
    \/ CallEvaluate
    \/ CallDegree
    \/ CallIsZero
    \/ CallDivideWithQAndR
    \/ CallVanishingPolynomial
    \/ CallNaiveInterpolate
    \/ CallAdd
    \/ CallNeg
    \/ CallSub
    \/ CallMul
    \/ CallDiv
    \/ CallAddScalar
    \/ CallSubScalar
    \/ CallMulScalar
    \/ KeepAsA
    \/ KeepAsB
    \/ Drop

Spec == Init /\ [][Next]_vars

(***************************************************************************)
(* divide_with_q_and_r, one pass of its reduction loop at a time.          *)
(***************************************************************************)
InitDiv ==
    /\ a \in Vectors /\ b \in Vectors /\ pts = << >>
    /\ NoCall
    /\ pc = "enter" /\ quotient_coeffs = << >> /\ remainder = << >> /\ iters = 0
    /\ ParamsIdle

\* the assertion, the early returns, the locals set up before the loop
DivEnter ==
    /\ pc = "enter"
    /\ IF is_zero(b)
       THEN pc' = "panic" /\ UNCHANGED << quotient_coeffs, remainder >>
       ELSE IF is_zero(a)
       THEN pc' = "return" /\ quotient_coeffs' = zero /\ remainder' = zero
       ELSE IF degree(a) < degree(b)
       THEN pc' = "return" /\ quotient_coeffs' = zero /\ remainder' = a
       ELSE IF ~try_inverse(b[Len(b)]).ok
       THEN pc' = "panic" /\ UNCHANGED << quotient_coeffs, remainder >>
       ELSE /\ pc' = "loop"
            /\ quotient_coeffs' = [i \in 1 .. (degree(a) - degree(b) + 1) |-> 0]
            /\ remainder' = a
    /\ UNCHANGED << iters, polyVars, paramVars >>

\* one pass through the loop
DivPass ==
    /\ pc = "loop"
    /\ DivGuard(remainder, b)
    /\ LET nxt == DivBody(quotient_coeffs, remainder, b, try_inverse(b[Len(b)]).val)
       IN  quotient_coeffs' = nxt[1] /\ remainder' = nxt[2]
    /\ iters' = iters + 1
    /\ UNCHANGED << pc, polyVars, paramVars >>

\* the loop's guard is false: the quotient and the remainder are returned
DivReturn ==
    /\ pc = "loop"
    /\ ~DivGuard(remainder, b)
    /\ pc' = "return"
    /\ UNCHANGED << quotient_coeffs, remainder, iters, polyVars, paramVars >>

NextDiv ==
    \/ DivEnter
    \/ DivPass
    \/ DivReturn

\* a call that was entered runs on: nothing in the function waits
SpecDiv == InitDiv /\ [][NextDiv]_vars /\ WF_vars(NextDiv)

(***************************************************************************)
(* The test configuration builder: log_inv_rates from the folding factors. *)
(***************************************************************************)
Usize == 0 .. (Pow2(UsizeBits) - 1)

\* the step with the - 1 left out
next_log_rate_no_dec(i_th_log_rate, log_k, checked) ==
    LET sum == i_th_log_rate + log_k
    IN  IF checked /\ sum > Pow2(UsizeBits) - 1
        THEN [ok |-> FALSE, val |-> 0]
        ELSE [ok |-> TRUE, val |-> sum % Pow2(UsizeBits)]

\* i_th_log_rate + log_k - 1 in usize: with overflow checks either
\* operation panics when its result is not a usize, without them it wraps
next_log_rate(i_th_log_rate, log_k, checked) ==
    LET sum == i_th_log_rate + log_k
    IN  IF checked /\ (sum > Pow2(UsizeBits) - 1 \/ sum = 0)
        THEN [ok |-> FALSE, val |-> 0]
        ELSE [ok |-> TRUE, val |-> (sum + Pow2(UsizeBits) - 1) % Pow2(UsizeBits)]

RECURSIVE RatesFrom(_, _, _, _, _)
RatesFrom(i_th_log_rate, factors, i, acc, checked) ==
    IF i > Len(factors) THEN Ret(acc)
    ELSE LET n == next_log_rate(i_th_log_rate, factors[i], checked)
         IN  IF ~n.ok THEN Panic
             ELSE RatesFrom(n.val, factors, i + 1, Append(acc, n.val), checked)

\* the log_inv_rates the builder collects
collect_log_inv_rates(start, factors, checked) ==
    RatesFrom(start, factors, 1, << >>, checked)

InitParams ==
    /\ a = zero /\ b = zero /\ pts = << >>
    /\ NoCall
    /\ DivIdle
    /\ log_starting_inv_rate \in Usize
    /\ log_folding_factors \in SeqsUpTo(Usize, MaxRounds)
    /\ overflow_checks \in BOOLEAN
    /\ log_inv_rates = << >>
    /\ built = "no"

BuildParameters ==
    /\ built = "no"
    /\ LET r == collect_log_inv_rates(log_starting_inv_rate, log_folding_factors,
                                      overflow_checks)
       IN  /\ built' = IF r.ok THEN "yes" ELSE "panic"
           /\ log_inv_rates' = r.val
    /\ UNCHANGED << log_starting_inv_rate, log_folding_factors, overflow_checks,
                    polyVars, divVars >>

NextParams == BuildParameters

SpecParams == InitParams /\ [][NextParams]_vars

(***************************************************************************)
(* What the claims are stated with.                                        *)
(***************************************************************************)
\* the coefficient of x^(k-1), zero beyond the vector's end
Coef(p, k) == IF k <= Len(p) THEN p[k] ELSE 0

\* the coefficient of x^(k-1) of the product: the sum of x_i * y_j, i + j = k - 1
ConvCoef(x, y, k) ==
    SumTo([i \in 1 .. k |-> FMul(Coef(x, i), Coef(y, k + 1 - i))], k)

Convolution(x, y) ==
    IF Len(x) = 0 \/ Len(y) = 0 THEN << >>
    ELSE [k \in 1 .. (Len(x) + Len(y) - 1) |-> ConvCoef(x, y, k)]

Longest == 2 * MaxLen + MaxPts + 2

PairwiseDistinct(pl) ==
    \A i, j \in 1 .. Len(pl) : i # j => pl[i][1] # pl[j][1]

IsPow2(n) == \E k \in 0 .. TWO_ADICITY : n = Pow2(k)

(***************************************************************************)
(* Claims about the polynomial engine, under Spec.                         *)
(***************************************************************************)
\* C1: every polynomial a producing operation returns is empty or ends in a
\* nonzero coefficient (quotient and remainder alike).
C1_NoTrailingZero ==
    (op \in Producing /\ ok) => (Truncated(out) /\ Truncated(rem))

\* C2: for self and a nonzero divisor, both without trailing zeros,
\* divide_with_q_and_r returns (q, r) with self = q * divisor + r coefficient by
\* coefficient, r zero or of degree below the divisor's, and exactly (zero, self)
\* when self's degree is below the divisor's.
C2_DivisionIdentity ==
    (op = "divide_with_q_and_r" /\ Truncated(a) /\ Truncated(b) /\ ~is_zero(b)) =>
        /\ ok
        /\ \A k \in 1 .. Longest :
               Coef(a, k) = FAdd(ConvCoef(out, b, k), Coef(rem, k))
        /\ is_zero(rem) \/ degree(rem) < degree(b)
        /\ degree(a) < degree(b) => (out = zero /\ rem = a)

C2_Witness ==
    /\ op = "divide_with_q_and_r" /\ ok
    /\ Truncated(a) /\ Truncated(b)
    /\ degree(b) >= 1 /\ degree(a) >= degree(b)
    /\ ~is_zero(out) /\ ~is_zero(rem)

C5_MulIsConvolution ==
    op = "mul" =>
        /\ ok
        /\ out = truncate_leading_zeros(Convolution(a, b))
        /\ LET n == domain_size(a, b)
           IN  /\ IsPow2(n)
               /\ n >= Len(a) + Len(b) - 1
               /\ n > 1 => n \div 2 < Len(a) + Len(b) - 1

\* C6: for N pairwise-distinct points with any target values (zero included),
\* naive_interpolate returns a polynomial that evaluates to the target at every
\* point and is zero or of degree at most N - 1.
C6_Interpolates ==
    (op = "naive_interpolate" /\ PairwiseDistinct(pts)) =>
        /\ ok
        /\ \A i \in 1 .. Len(pts) : evaluate(out, pts[i][1]) = pts[i][2]
        /\ is_zero(out) \/ degree(out) <= Len(pts) - 1

C6_Witness ==
    /\ op = "naive_interpolate" /\ ok
    /\ Len(pts) = 2 /\ PairwiseDistinct(pts)
    /\ pts[1][2] = 0 /\ pts[2][2] # 0
    /\ degree(out) = 1
    /\ evaluate(out, pts[2][1]) = pts[2][2]

\* C7: exact division returns the quotient of divide_with_q_and_r when the
\* remainder is zero, and whatever it returns times the divisor is the dividend;
\* with a nonzero remainder or a zero divisor it panics and returns nothing.
C7_ExactDivision ==
    op = "div" =>
        LET qr == divide_with_q_and_r(a, b)
        IN  /\ (qr.ok /\ is_zero(qr.r)) => (ok /\ out = qr.q)
            /\ (is_zero(b) \/ ~qr.ok \/ ~is_zero(qr.r)) => ~ok
            /\ ok => \A k \in 1 .. Longest : Coef(a, k) = ConvCoef(out, b, k)

C7_Witness ==
    /\ op = "div" /\ ~ok
    /\ Truncated(a) /\ Truncated(b) /\ ~is_zero(b)
    /\ divide_with_q_and_r(a, b).ok
    /\ ~is_zero(divide_with_q_and_r(a, b).r)

\* C8: evaluate, degree, is_zero, +, -, negation, *, the scalar variants and
\* vanishing_polynomial return for all operands, and naive_interpolate returns
\* on pairwise-distinct points: only the two divisions can panic.
C8_OnlyDivisionPanics ==
    /\ op \in {"evaluate", "degree", "is_zero", "add", "sub", "neg", "mul",
               "add_scalar", "sub_scalar", "mul_scalar", "vanishing_polynomial",
               "zero", "one", "monomial"} => ok
    /\ (op = "naive_interpolate" /\ PairwiseDistinct(pts)) => ok

(***************************************************************************)
(* The claim about the division loop, under SpecDiv.                       *)
(***************************************************************************)
DivPre == Truncated(b) /\ ~is_zero(b)

\* the indices the next pass writes are inside quotient_coeffs and remainder
IndicesInBounds ==
    LET cur_q_degree == degree(remainder) - degree(b)
    IN  /\ cur_q_degree >= 0
        /\ cur_q_degree + 1 <= Len(quotient_coeffs)
        /\ cur_q_degree + Len(b) <= Len(remainder)

\* C10: for a nonzero divisor without trailing zeros, every pass of the loop
\* shortens the remainder, writes inside the two vectors, the passes number at
\* most deg(self) - deg(divisor) + 1, the loop is left with the remainder zero or
\* of degree below the divisor's, and the call returns.
C10_DivisionTerminates ==
    /\ [](DivPre =>
            /\ iters > 0 => iters <= degree(a) - degree(b) + 1
            /\ (pc = "loop" /\ DivGuard(remainder, b)) => IndicesInBounds
            /\ pc = "return" => (is_zero(remainder) \/ degree(remainder) < degree(b)))
    /\ [][(DivPre /\ iters' = iters + 1) => Len(remainder') < Len(remainder)]_vars
    /\ (DivPre => <>(pc = "return"))

C10_Witness ==
    /\ DivPre /\ Truncated(a)
    /\ pc = "return" /\ iters >= 2
    /\ iters = degree(a) - degree(b) + 1

(***************************************************************************)
(* The claim about the configuration builder, under SpecParams.            *)
(***************************************************************************)
\* the rate before round i
PrevRate(i) == IF i = 1 THEN log_starting_inv_rate ELSE log_inv_rates[i - 1]

RECURSIVE IdealRate(_)
\* the rate after round i, in the integers
IdealRate(i) ==
    IF i = 0 THEN log_starting_inv_rate
    ELSE IdealRate(i - 1) + log_folding_factors[i] - 1

\* no round's sum leaves the usize range or is zero before the decrement
NoWrap ==
    \A i \in 1 .. Len(log_folding_factors) :
        /\ IdealRate(i - 1) + log_folding_factors[i] >= 1
        /\ IdealRate(i - 1) + log_folding_factors[i] <= Pow2(UsizeBits) - 1

\* C9 as stated: for every starting rate and every list of folding factors the
\* parameters are built with one rate per factor and
\* log_inv_rates[i] = prev + log_folding_factors[i] - 1.
C9_RatesForEveryInput ==
    built # "no" =>
        /\ built = "yes"
        /\ Len(log_inv_rates) = Len(log_folding_factors)
        /\ \A i \in 1 .. Len(log_inv_rates) :
               log_inv_rates[i] = PrevRate(i) + log_folding_factors[i] - 1

\* C9 amended: the same, for the inputs where no round's prev + log_k is zero
\* or beyond the largest usize.
C9_RatesWithoutWrap ==
    (built # "no" /\ NoWrap) =>
        /\ built = "yes"
        /\ Len(log_inv_rates) = Len(log_folding_factors)
        /\ \A i \in 1 .. Len(log_inv_rates) :
               log_inv_rates[i] = PrevRate(i) + log_folding_factors[i] - 1

C9_Witness ==
    /\ built = "yes" /\ NoWrap
    /\ Len(log_folding_factors) = 2
    /\ log_folding_factors[1] = 0
    /\ log_inv_rates[2] > log_inv_rates[1]

====
